---------------------------- MODULE Spec2Model ----------------------------
(***************************************************************************)
(* A model of the glider game: the flight dynamics of Glider.js, the       *)
(* input axes of InputManager.js, the heightmap terrain of                  *)
(* LocalTerrainProvider (second half of InputManager.js) and the frame     *)
(* loop of main.js.                                                         *)
(*                                                                         *)
(* Numbers.  JavaScript numbers are modelled in two ways.                   *)
(*  - The flight dynamics use fixed point: angles in milliradians, control *)
(*    axes and unit vectors in thousandths, lengths in centimetres,        *)
(*    speeds in cm/s, frame times in milliseconds.  Every product is       *)
(*    divided back with Quot, which truncates toward zero.                 *)
(*  - The terrain sampling uses exact rationals <<n, d>> in lowest terms,  *)
(*    so that "returns exactly" is decided by real arithmetic.             *)
(***************************************************************************)
EXTENDS Integers, Sequences, FiniteSets, TLC

VARIABLES
    glider,     \* the Glider object's fields (Glider.js constructor)
    lastOp,     \* the last operation that ran
    wasCrashed, \* glider.crashed as that operation found it
    ticks,      \* number of physics steps since construction or reset
    terrain,    \* the LocalTerrainProvider object's fields
    query,      \* the last terrain query: its arguments and what it returned
    input,      \* the InputManager object's fields
    game,       \* the Game object: where init() stands, its flags, the overlay
    boundary,   \* the last checkBoundaries or applyBoundaryForce call
    scenario    \* the flight scenario being flown and its accumulated frame time

vars == <<glider, lastOp, wasCrashed, ticks, terrain, query, input, game,
          boundary, scenario>>

(***************************************************************************)
(* Fixed-point arithmetic                                                  *)
(***************************************************************************)
Milli == 10 * 100            \* thousandths: axes, unit vectors, mrad, ms
Centi == 10 * 10             \* centimetres per metre

Abs(a) == IF a < 0 THEN -a ELSE a
Min(a, b) == IF a < b THEN a ELSE b
Max(a, b) == IF a > b THEN a ELSE b
Clamp(lo, x, hi) == Max(lo, Min(hi, x))

\* Division truncating toward zero (b > 0), as a float result cut to the grid.
Quot(a, b) == IF a >= 0 THEN a \div b ELSE -((-a) \div b)

\* a * b / c on the grid
MulDiv(a, b, c) == Quot(a * b, c)

\* Math.PI in milliradians
Pi == 3142
HalfPi == Pi \div 2
TwoPi == 2 * Pi

\* Math.sqrt on non-negative integers: the integer part, by bisection.
RECURSIVE SqrtIter(_, _, _)
SqrtIter(n, lo, hi) ==
    IF hi - lo <= 1 THEN lo
    ELSE LET mid == (lo + hi) \div 2
         IN  IF mid * mid <= n THEN SqrtIter(n, mid, hi) ELSE SqrtIter(n, lo, mid)

Sqrt(n) == IF n <= 0 THEN 0 ELSE SqrtIter(n, 0, 46341)

\* An angle brought into (-Pi, Pi]
WrapAngle(a) ==
    LET m == a % TwoPi
    IN  IF m > Pi THEN m - TwoPi ELSE m

\* Math.sin on milliradians, result in thousandths: the Taylor polynomial
\* of degree 7 on [-Pi/2, Pi/2] after folding the angle into that interval.
Sin(a) ==
    LET fold(w)   == IF w > HalfPi THEN Pi - w ELSE IF w < -HalfPi THEN -Pi - w ELSE w
        x2(x)     == MulDiv(x, x, Milli)
        t3(x)     == MulDiv(x2(x), x, Milli)
        t5(x)     == MulDiv(t3(x), x2(x), Milli)
        t7(x)     == MulDiv(t5(x), x2(x), Milli)
        series(x) == x - Quot(t3(x), 6) + Quot(t5(x), 120) - Quot(t7(x), 5040)
    IN  Clamp(-Milli, series(fold(WrapAngle(a))), Milli)

\* Math.cos on milliradians
Cos(a) == Sin(a + HalfPi)

\* Math.acos on thousandths in [-1000, 1000], result in [0, Pi] milliradians:
\* bisection on the decreasing Cos.
RECURSIVE AcosIter(_, _, _)
AcosIter(d, lo, hi) ==
    IF hi - lo <= 1 THEN lo
    ELSE LET mid == (lo + hi) \div 2
         IN  IF Cos(mid) >= d THEN AcosIter(d, mid, hi) ELSE AcosIter(d, lo, mid)

Acos(d) == IF d >= Milli THEN 0 ELSE IF d <= -Milli THEN Pi ELSE AcosIter(d, 0, Pi)

\* Math.atan2(y, x) in milliradians, in [-Pi, Pi]: the angle whose cosine is
\* x / |(x, y)|, with the sign of y.  ySign is the sign bit of y, which
\* decides between atan2(-0, x) = -Pi and atan2(+0, x) = Pi for x < 0.
Atan2(y, x, ySign) ==
    LET signed(a) == IF ySign THEN -a ELSE a
        angle(r)  == IF r = 0 THEN 0 ELSE Acos(Clamp(-Milli, MulDiv(x, Milli, r), Milli))
    IN  signed(angle(Sqrt(x * x + y * y)))

(***************************************************************************)
(* THREE.Vector3 on the grid                                               *)
(***************************************************************************)
Vec(x, y, z) == [x |-> x, y |-> y, z |-> z]
VAdd(a, b) == Vec(a.x + b.x, a.y + b.y, a.z + b.z)
\* multiplyScalar by s / den
VScale(a, s, den) == Vec(MulDiv(a.x, s, den), MulDiv(a.y, s, den), MulDiv(a.z, s, den))
VDot(a, b) == a.x * b.x + a.y * b.y + a.z * b.z
VLength(a) == Sqrt(VDot(a, a))
\* Vector3.normalize: divideScalar(length() || 1); the result is in thousandths
VNormalize(a) ==
    LET len == VLength(a)
    IN  IF len = 0 THEN Vec(0, 0, 0) ELSE VScale(a, Milli, len)

\* (0, 0, -1) turned by the quaternion of Euler(pitch, yaw, roll, 'YXZ')
Forward(rot) ==
    Vec(-MulDiv(Sin(rot.yaw), Cos(rot.pitch), Milli),
        Sin(rot.pitch),
        -MulDiv(Cos(rot.yaw), Cos(rot.pitch), Milli))

\* (0, 1, 0) turned by the quaternion of Euler(pitch, yaw, roll, 'YXZ')
Up(rot) ==
    LET sr == Sin(rot.roll)   cr == Cos(rot.roll)
        sp == Sin(rot.pitch)  cp == Cos(rot.pitch)
        sy == Sin(rot.yaw)    cy == Cos(rot.yaw)
        crsp == MulDiv(cr, sp, Milli)
    IN  Vec(-MulDiv(sr, cy, Milli) + MulDiv(crsp, sy, Milli),
            MulDiv(cr, cp, Milli),
            MulDiv(sr, sy, Milli) + MulDiv(crsp, cy, Milli))

Euler(p, y, r) == [pitch |-> p, yaw |-> y, roll |-> r]

(***************************************************************************)
(* Exact rationals <<n, d>>, d > 0, in lowest terms                        *)
(***************************************************************************)
RECURSIVE GCD(_, _)
GCD(a, b) == IF b = 0 THEN a ELSE GCD(b, a % b)

Rat(n, d) ==
    LET g == GCD(Abs(n), Abs(d))
    IN  IF d < 0 THEN <<-(n \div g), (-d) \div g>> ELSE <<n \div g, d \div g>>

RInt(k) == <<k, 1>>
RAdd(a, b) ==
    LET l == (a[2] \div GCD(a[2], b[2])) * b[2]
    IN  Rat(a[1] * (l \div a[2]) + b[1] * (l \div b[2]), l)
RNeg(a) == <<-a[1], a[2]>>
RSub(a, b) == RAdd(a, RNeg(b))
RMul(a, b) ==
    LET g1 == GCD(Abs(a[1]), b[2])
        g2 == GCD(Abs(b[1]), a[2])
    IN  IF a[1] = 0 \/ b[1] = 0 THEN <<0, 1>>
        ELSE Rat((a[1] \div g1) * (b[1] \div g2), (a[2] \div g2) * (b[2] \div g1))
\* a / b, b # 0
RDiv(a, b) == RMul(a, Rat(b[2], b[1]))
RLess(a, b) == a[1] * b[2] < b[1] * a[2]
RMin(a, b) == IF RLess(a, b) THEN a ELSE b
RMax(a, b) == IF RLess(b, a) THEN a ELSE b
\* Math.floor
RFloor(a) == a[1] \div a[2]

(***************************************************************************)
(* Glider.js                                                               *)
(***************************************************************************)
gravity == 981               \* 9.81 m/s^2 in cm/s^2
maxSpeed == 8000             \* 80 m/s in cm/s
minSpeed == 1000             \* 10 m/s in cm/s
baseDrag == 20000            \* 0.02 in millionths
liftCoefficient == 800       \* 0.8 in thousandths
pitchRate == 1500            \* 1.5 rad/s in mrad/s
rollRate == 2000             \* 2.0 rad/s in mrad/s
yawFromRoll == 500           \* 0.5 in thousandths
maxDeltaTime == 100          \* 0.1 s in ms
startAltitude == 100000      \* 1000 m in cm
startSpeed == 2000           \* 20 m/s in cm/s
pitchLimit == Pi \div 3      \* Math.PI / 3
rollLimit == Pi \div 2       \* Math.PI / 2

\* The fields the constructor sets.
GliderNew ==
    [position   |-> Vec(0, startAltitude, 0),
     velocity   |-> Vec(0, 0, -startSpeed),
     rotation   |-> Euler(0, 0, 0),
     pitch      |-> 0,
     roll       |-> 0,
     yaw        |-> 0,
     pitchInput |-> 0,
     rollInput  |-> 0,
     crashed    |-> FALSE,
     debugLift  |-> 0,
     debugAoA   |-> 0]

setInput(g, pitchInput, rollInput) ==
    [g EXCEPT !.pitchInput = pitchInput, !.rollInput = rollInput]

getSpeed(g) == VLength(g.velocity)

crash(g) == [g EXCEPT !.crashed = TRUE, !.velocity = Vec(0, 0, 0)]

\* reset as it would be if the heading were forgotten
reset_keepYaw(g) ==
    [g EXCEPT !.position = Vec(0, startAltitude, 0),
              !.velocity = Vec(0, 0, -startSpeed),
              !.pitch = 0,
              !.roll = 0,
              !.rotation = Euler(0, 0, 0),
              !.crashed = FALSE]

reset(g) ==
    [g EXCEPT !.position = Vec(0, startAltitude, 0),
              !.velocity = Vec(0, 0, -startSpeed),
              !.pitch = 0,
              !.roll = 0,
              !.yaw = 0,
              !.rotation = Euler(0, 0, 0),
              !.crashed = FALSE]

\* updateRotation as it would be without the pitch limit
updateRotation_noPitchLimit(g, deltaTime) ==
    LET pitch1  == g.pitch + Quot(g.pitchInput * pitchRate * deltaTime, Milli * Milli)
        roll1   == Clamp(-rollLimit,
                         g.roll + Quot(g.rollInput * rollRate * deltaTime, Milli * Milli),
                         rollLimit)
        yawRate == MulDiv(MulDiv(Sin(roll1), yawFromRoll, Milli), getSpeed(g), 20 * Centi)
        yaw1    == g.yaw + MulDiv(yawRate, deltaTime, Milli)
        roll2   == IF Abs(g.rollInput) < 100
                   THEN MulDiv(roll1, Milli - MulDiv(500, deltaTime, Milli), Milli)
                   ELSE roll1
    IN  [g EXCEPT !.pitch = pitch1,
                  !.roll = roll2,
                  !.yaw = yaw1,
                  !.rotation = Euler(pitch1, yaw1, roll2)]

\* updateRotation with the pitch limited before the step is added, not after.
updateRotation_limitBeforeStep(g, deltaTime) ==
    LET pitch1  == Clamp(-pitchLimit, g.pitch, pitchLimit)
                   + Quot(g.pitchInput * pitchRate * deltaTime, Milli * Milli)
        roll1   == Clamp(-rollLimit,
                         g.roll + Quot(g.rollInput * rollRate * deltaTime, Milli * Milli),
                         rollLimit)
        yawRate == MulDiv(MulDiv(Sin(roll1), yawFromRoll, Milli), getSpeed(g), 20 * Centi)
        yaw1    == g.yaw + MulDiv(yawRate, deltaTime, Milli)
        roll2   == IF Abs(g.rollInput) < 100
                   THEN MulDiv(roll1, Milli - MulDiv(500, deltaTime, Milli), Milli)
                   ELSE roll1
    IN  [g EXCEPT !.pitch = pitch1,
                  !.roll = roll2,
                  !.yaw = yaw1,
                  !.rotation = Euler(pitch1, yaw1, roll2)]

\* Glider.updateRotation: pitch and roll integrate the inputs and are
\* limited, the bank turns the heading, the roll levels itself when the roll
\* input is inside the dead zone, and the quaternion is rebuilt.
updateRotation(g, deltaTime) ==
    LET pitch1  == Clamp(-pitchLimit,
                         g.pitch + Quot(g.pitchInput * pitchRate * deltaTime, Milli * Milli),
                         pitchLimit)
        roll1   == Clamp(-rollLimit,
                         g.roll + Quot(g.rollInput * rollRate * deltaTime, Milli * Milli),
                         rollLimit)
        yawRate == MulDiv(MulDiv(Sin(roll1), yawFromRoll, Milli), getSpeed(g), 20 * Centi)
        yaw1    == g.yaw + MulDiv(yawRate, deltaTime, Milli)
        roll2   == IF Abs(g.rollInput) < 100
                   THEN MulDiv(roll1, Milli - MulDiv(500, deltaTime, Milli), Milli)
                   ELSE roll1
    IN  [g EXCEPT !.pitch = pitch1,
                  !.roll = roll2,
                  !.yaw = yaw1,
                  !.rotation = Euler(pitch1, yaw1, roll2)]

\* Angle between the nose and the direction of flight, in milliradians.
angleOfAttack(g) ==
    LET forward     == Forward(g.rotation)
        velocityDir == VNormalize(g.velocity)
        dot         == Quot(VDot(forward, velocityDir), Milli)
    IN  Acos(Clamp(-Milli, dot, Milli))

\* === GRAVITY ===
applyGravity(v, deltaTime) == [v EXCEPT !.y = v.y - MulDiv(gravity, deltaTime, Milli)]

\* The lift of a step that starts at `speed`, in cm/s^2: zero at or below the
\* stall speed.
liftMagnitude(g, speed) ==
    IF speed > minSpeed
    THEN LET speedFactor == Min(MulDiv(speed, Milli, 30 * Centi), 1500)
             pitchFactor == Cos(g.pitch)
         IN  MulDiv(MulDiv(MulDiv(liftCoefficient, speedFactor, Milli), pitchFactor, Milli),
                    gravity, Milli)
    ELSE 0

\* applyLift as it would be without the stall test
applyLift_noStall(g, v, speed, deltaTime) ==
    LET speedFactor == Min(MulDiv(speed, Milli, 30 * Centi), 1500)
        magnitude   == MulDiv(MulDiv(MulDiv(liftCoefficient, speedFactor, Milli),
                                     Cos(g.pitch), Milli),
                              gravity, Milli)
    IN  VAdd(v, VScale(Up(g.rotation), MulDiv(magnitude, deltaTime, Milli), Milli))

\* === LIFT ===: added along the local up axis, only above the stall speed.
applyLift(g, v, speed, deltaTime) ==
    IF speed > minSpeed
    THEN VAdd(v, VScale(Up(g.rotation), MulDiv(liftMagnitude(g, speed), deltaTime, Milli), Milli))
    ELSE v

\* The drag coefficient in millionths: base, induced (nose up), angle of attack.
dragCoeff(g, aoa) ==
    baseDrag + (IF g.pitch > 100 THEN g.pitch * 50 ELSE 0) + aoa * 20

\* === DRAG ===: against the direction the step started with.
applyDrag(g, v, speed, velocityDir, aoa, deltaTime) ==
    LET dragForce == Quot(Quot(speed * speed, Centi * Centi)
                            * MulDiv(dragCoeff(g, aoa), deltaTime, Milli),
                          Centi * Centi)
    IN  IF speed > 10
        THEN VAdd(v, VScale(velocityDir, -dragForce, Milli))
        ELSE v

\* === DIVE ===: nose down and sinking adds speed along the nose.
applyDive(g, v, forward, deltaTime) ==
    IF g.pitch < -100 /\ v.y < 0
    THEN LET diveBoost == MulDiv(MulDiv(Abs(g.pitch), 300, Milli), deltaTime, Milli)
         IN  IF VLength(v) < maxSpeed
             THEN VAdd(v, VScale(forward, diveBoost * 10 * Centi, Milli * Milli))
             ELSE v
    ELSE v

\* Clamp max speed
clampSpeed(v) ==
    IF VLength(v) > maxSpeed
    THEN VScale(VNormalize(v), maxSpeed, Milli)
    ELSE v

\* The velocity after the forces of one step, before the position moves.
stepVelocity(g, aoa, deltaTime) ==
    LET speed       == getSpeed(g)
        forward     == Forward(g.rotation)
        velocityDir == VNormalize(g.velocity)
        v1          == applyGravity(g.velocity, deltaTime)
        v2          == applyLift(g, v1, speed, deltaTime)
        v3          == applyDrag(g, v2, speed, velocityDir, aoa, deltaTime)
        v4          == applyDive(g, v3, forward, deltaTime)
    IN  clampSpeed(v4)

\* The ground test at the end of a step: the altitude against zero.
belowGround(position) == position.y < 0

\* Glider.updatePhysics
updatePhysics(g, deltaTime) ==
    LET moved(aoa, velocity) ==
            [g EXCEPT !.debugAoA = aoa,
                      !.debugLift = liftMagnitude(g, getSpeed(g)),
                      !.velocity = velocity,
                      !.position = VAdd(g.position, VScale(velocity, deltaTime, Milli))]
        forces(aoa) == moved(aoa, stepVelocity(g, aoa, deltaTime))
        ground(m)   == IF belowGround(m.position) THEN crash(m) ELSE m
    IN  ground(forces(angleOfAttack(g)))

\* update as it would be without the cap on the frame time
Glider_update_uncapped(g, deltaTime) ==
    IF g.crashed
    THEN g
    ELSE updatePhysics(updateRotation(g, deltaTime), deltaTime)

\* update as it would be without the early return on crashed
Glider_update_noCrashedReturn(g, deltaTime) ==
    updatePhysics(updateRotation(g, Min(deltaTime, maxDeltaTime)),
                  Min(deltaTime, maxDeltaTime))

\* Glider.update: nothing when crashed; else the frame time is capped and the
\* rotation and the physics advance (updateMesh only copies to the mesh).
Glider_update(g, deltaTime) ==
    IF g.crashed
    THEN g
    ELSE updatePhysics(updateRotation(g, Min(deltaTime, maxDeltaTime)),
                       Min(deltaTime, maxDeltaTime))

\* while (d > Math.PI) d -= 2 * Math.PI
RECURSIVE normalizeDown(_)
normalizeDown(d) == IF d > Pi THEN normalizeDown(d - TwoPi) ELSE d
\* The second loop as it would be with <= for <, taking -pi to +pi.
RECURSIVE normalizeUp_inclusive(_)
normalizeUp_inclusive(d) == IF d <= -Pi THEN normalizeUp_inclusive(d + TwoPi) ELSE d
\* while (d < -Math.PI) d += 2 * Math.PI
RECURSIVE normalizeUp(_)
normalizeUp(d) == IF d < -Pi THEN normalizeUp(d + TwoPi) ELSE d

\* No scenario is being flown.
NoScenario == [name |-> "none"]

\* 1.0 of the strength argument of applyBoundaryForce: ten-thousandths, so
\* that a penetration in centimetres over the 100 m buffer is exact.
StrengthScale == 10 * Milli

\* A direction handed to applyBoundaryForce: a vector in thousandths and the
\* sign bit of its x component, which tells -0 from +0.
Direction(v, xSign) == [x |-> v.x, y |-> v.y, z |-> v.z, xSign |-> xSign]

\* const targetYaw = Math.atan2(directionToCenter.x, -directionToCenter.z)
targetYaw(directionToCenter) ==
    Atan2(directionToCenter.x, -directionToCenter.z, directionToCenter.xSign)

\* The difference to the target heading after the two while loops.
normalizedDiff(g, directionToCenter) ==
    normalizeUp(normalizeDown(targetYaw(directionToCenter) - g.yaw))

\* yawCorrection as it would be if the strength were ignored
yawCorrection_fullStrength(g, directionToCenter, strength) ==
    Rat(normalizedDiff(g, directionToCenter) * 20, Milli)

\* normalizedDiff * strength * 0.02, exactly: a rational number of
\* milliradians.
yawCorrection(g, directionToCenter, strength) ==
    Rat(normalizedDiff(g, directionToCenter) * strength * 20, StrengthScale * Milli)

\* Glider.applyBoundaryForce: the heading moves toward the centre by the
\* normalised difference times strength times 0.02, cut to the grid.
applyBoundaryForce(g, directionToCenter, strength) ==
    LET turn(c) == [g EXCEPT !.yaw = g.yaw + Quot(c[1], c[2])]
    IN  turn(yawCorrection(g, directionToCenter, strength))

(***************************************************************************)
(* LocalTerrainProvider (InputManager.js, second half) and TerrainProvider *)
(***************************************************************************)
defaultTerrainSize == 3000   \* options.width || 3000, options.depth || 3000
defaultMaxHeight == 8849     \* options.maxHeight || 8849
defaultSegments == 256       \* options.segments || 256
maxPixelValue == 255

\* `a || b` on numbers: b when a is absent (written 0) or 0
OrElse(a, b) == IF a = 0 THEN b ELSE a

\* new LocalTerrainProvider(options): sizes in metres, no height data yet
LocalTerrainProviderNew(options) ==
    [terrainWidth     |-> OrElse(options.width, defaultTerrainSize),
     terrainDepth     |-> OrElse(options.depth, defaultTerrainSize),
     maxHeight        |-> OrElse(options.maxHeight, defaultMaxHeight),
     minHeight        |-> OrElse(options.minHeight, 0),
     segments         |-> OrElse(options.segments, defaultSegments),
     heightData       |-> <<>>,
     heightDataWidth  |-> 0,
     heightDataHeight |-> 0,
     mesh             |-> FALSE,
     ready            |-> FALSE]

\* The height one pixel maps to, in centimetres: minHeight + (pixel / 255) *
\* (maxHeight - minHeight), stored in a Float32Array, whose rounding is taken
\* as cutting to the centimetre.
pixelHeight(t, pixelValue) ==
    t.minHeight * Centi
        + Quot(pixelValue * (t.maxHeight - t.minHeight) * Centi, maxPixelValue)

\* loadHeightmap, img.onload: the red channel of every pixel becomes a height
loadHeightmap(t, img) ==
    [t EXCEPT !.heightDataWidth = img.width,
              !.heightDataHeight = img.height,
              !.heightData = [i \in 1..(img.width * img.height) |->
                                 pixelHeight(t, img.pixels[i])]]

\* this.heightData[i] for a JavaScript index i (from 0)
heightSample(t, i) == RInt(t.heightData[i + 1])

\* sampleCell as it would be with the "+1" neighbours taken modulo the size,
\* wrapping to the first column and row at the far edges.
sampleCell_wrapNeighbour(t, u, v) ==
    LET uc == RMax(RInt(0), RMin(RInt(1), u))
        vc == RMax(RInt(0), RMin(RInt(1), v))
        px == RMul(uc, RInt(t.heightDataWidth - 1))
        py == RMul(vc, RInt(t.heightDataHeight - 1))
        x0 == RFloor(px)
        y0 == RFloor(py)
    IN  [x0 |-> x0,
         y0 |-> y0,
         x1 |-> (x0 + 1) % t.heightDataWidth,
         y1 |-> (y0 + 1) % t.heightDataHeight,
         fx |-> RSub(px, RInt(x0)),
         fy |-> RSub(py, RInt(y0))]

\* The pixel cell and the weights sampleHeightmap works with.
sampleCell(t, u, v) ==
    LET uc == RMax(RInt(0), RMin(RInt(1), u))
        vc == RMax(RInt(0), RMin(RInt(1), v))
        px == RMul(uc, RInt(t.heightDataWidth - 1))
        py == RMul(vc, RInt(t.heightDataHeight - 1))
        x0 == RFloor(px)
        y0 == RFloor(py)
    IN  [x0 |-> x0,
         y0 |-> y0,
         x1 |-> Min(x0 + 1, t.heightDataWidth - 1),
         y1 |-> Min(y0 + 1, t.heightDataHeight - 1),
         fx |-> RSub(px, RInt(x0)),
         fy |-> RSub(py, RInt(y0))]

\* The indices (from 0) of heightData that sampleHeightmap reads for a cell.
readIndices(t, c) ==
    {c.y0 * t.heightDataWidth + c.x0, c.y0 * t.heightDataWidth + c.x1,
     c.y1 * t.heightDataWidth + c.x0, c.y1 * t.heightDataWidth + c.x1}

\* bilinear as it would be with the two weights of a row exchanged
bilinear_swappedWeights(t, c) ==
    LET h00 == heightSample(t, c.y0 * t.heightDataWidth + c.x0)
        h10 == heightSample(t, c.y0 * t.heightDataWidth + c.x1)
        h01 == heightSample(t, c.y1 * t.heightDataWidth + c.x0)
        h11 == heightSample(t, c.y1 * t.heightDataWidth + c.x1)
        h0  == RAdd(RMul(h00, c.fx), RMul(h10, RSub(RInt(1), c.fx)))
        h1  == RAdd(RMul(h01, c.fx), RMul(h11, RSub(RInt(1), c.fx)))
    IN  RAdd(RMul(h0, RSub(RInt(1), c.fy)), RMul(h1, c.fy))

\* bilinear as it would be with fy, not fx, weighting the last corner
bilinear_fyInRow(t, c) ==
    LET h00 == heightSample(t, c.y0 * t.heightDataWidth + c.x0)
        h10 == heightSample(t, c.y0 * t.heightDataWidth + c.x1)
        h01 == heightSample(t, c.y1 * t.heightDataWidth + c.x0)
        h11 == heightSample(t, c.y1 * t.heightDataWidth + c.x1)
        h0  == RAdd(RMul(h00, RSub(RInt(1), c.fx)), RMul(h10, c.fx))
        h1  == RAdd(RMul(h01, RSub(RInt(1), c.fx)), RMul(h11, c.fy))
    IN  RAdd(RMul(h0, RSub(RInt(1), c.fy)), RMul(h1, c.fy))

\* The bilinear blend of the four corner samples of a cell.
bilinear(t, c) ==
    LET h00 == heightSample(t, c.y0 * t.heightDataWidth + c.x0)
        h10 == heightSample(t, c.y0 * t.heightDataWidth + c.x1)
        h01 == heightSample(t, c.y1 * t.heightDataWidth + c.x0)
        h11 == heightSample(t, c.y1 * t.heightDataWidth + c.x1)
        h0  == RAdd(RMul(h00, RSub(RInt(1), c.fx)), RMul(h10, c.fx))
        h1  == RAdd(RMul(h01, RSub(RInt(1), c.fx)), RMul(h11, c.fx))
    IN  RAdd(RMul(h0, RSub(RInt(1), c.fy)), RMul(h1, c.fy))

\* LocalTerrainProvider.sampleHeightmap(u, v), in centimetres
sampleHeightmap(t, u, v) == bilinear(t, sampleCell(t, u, v))

\* getHeightAt as it would be if the edges counted as outside
getHeightAt_edgesOutside(t, x, z) ==
    IF t.heightData = <<>> THEN RInt(0)
    ELSE LET u == RDiv(RAdd(x, Rat(t.terrainWidth, 2)), RInt(t.terrainWidth))
             v == RDiv(RAdd(z, Rat(t.terrainDepth, 2)), RInt(t.terrainDepth))
         IN  IF ~RLess(RInt(0), u) \/ ~RLess(u, RInt(1))
                \/ ~RLess(RInt(0), v) \/ ~RLess(v, RInt(1))
             THEN RInt(0)
             ELSE sampleHeightmap(t, u, v)

\* LocalTerrainProvider.getHeightAt(x, z): world metres in, centimetres out
getHeightAt(t, x, z) ==
    IF t.heightData = <<>> THEN RInt(0)
    ELSE LET u == RDiv(RAdd(x, Rat(t.terrainWidth, 2)), RInt(t.terrainWidth))
             v == RDiv(RAdd(z, Rat(t.terrainDepth, 2)), RInt(t.terrainDepth))
         IN  IF RLess(u, RInt(0)) \/ RLess(RInt(1), u)
                \/ RLess(v, RInt(0)) \/ RLess(RInt(1), v)
             THEN RInt(0)
             ELSE sampleHeightmap(t, u, v)

\* LocalTerrainProvider.getBounds(), in metres
getBounds(t) ==
    [minX |-> Rat(-t.terrainWidth, 2),
     maxX |-> Rat(t.terrainWidth, 2),
     minZ |-> Rat(-t.terrainDepth, 2),
     maxZ |-> Rat(t.terrainDepth, 2),
     width |-> t.terrainWidth,
     depth |-> t.terrainDepth]

\* createMesh: every vertex is displaced by sampleHeightmap; only the fact
\* that the mesh exists is kept.
createMesh(t) == [t EXCEPT !.mesh = TRUE]

\* LocalTerrainProvider.init once the image has loaded
LocalTerrainProvider_init(t, img) ==
    [createMesh(loadHeightmap(t, img)) EXCEPT !.ready = TRUE]

\* No terrain query has been made.
NoQuery == [op |-> "none"]

\* The options main.js constructs the provider with (loadTerrain).
gameTerrainOptions ==
    [width |-> 5700, depth |-> 3000, maxHeight |-> 2000, minHeight |-> 0, segments |-> 256]
\* No options: every default applies.
noTerrainOptions ==
    [width |-> 0, depth |-> 0, maxHeight |-> 0, minHeight |-> 0, segments |-> 0]

(***************************************************************************)
(* InputManager (InputManager.js, first half)                              *)
(* The two axes are kept in twentieths of full deflection, the size of the *)
(* keyboard step 0.05; touch coordinates are pixels.                       *)
(***************************************************************************)
AxisScale == 4 * 5           \* 1.0 on an axis
keyStep == 1                 \* 0.05 per update while a key is held
maxDelta == 100              \* pixels of drag for full deflection

InputManagerNew ==
    [pitch         |-> 0,
     roll          |-> 0,
     keys          |-> [up |-> FALSE, down |-> FALSE, left |-> FALSE, right |-> FALSE],
     touchActive   |-> FALSE,
     touchStartX   |-> 0,
     touchStartY   |-> 0,
     touchCurrentX |-> 0,
     touchCurrentY |-> 0]

\* The keys the handlers know, by the flag they set (each has two codes).
KeyNames == {"up", "down", "left", "right"}

handleKeyDown(im, k) == [im EXCEPT !.keys[k] = TRUE]
handleKeyUp(im, k) == [im EXCEPT !.keys[k] = FALSE]

touchstart(im, touch) ==
    [im EXCEPT !.touchActive = TRUE,
               !.touchStartX = touch[1],
               !.touchStartY = touch[2],
               !.touchCurrentX = touch[1],
               !.touchCurrentY = touch[2]]

touchmove(im, touch) ==
    IF ~im.touchActive THEN im
    ELSE [im EXCEPT !.touchCurrentX = touch[1], !.touchCurrentY = touch[2]]

touchend(im) == [im EXCEPT !.touchActive = FALSE]
touchcancel(im) == [im EXCEPT !.touchActive = FALSE]

\* x * 0.9 on the axis grid
decay(x) == MulDiv(x, 9, 10)

\* The axes after the keyboard part of update.
keyboardAxes(im) ==
    [pitch |-> IF im.keys.up THEN Min(im.pitch + keyStep, AxisScale)
               ELSE IF im.keys.down THEN Max(im.pitch - keyStep, -AxisScale)
               ELSE decay(im.pitch),
     roll  |-> IF im.keys.left THEN Max(im.roll - keyStep, -AxisScale)
               ELSE IF im.keys.right THEN Min(im.roll + keyStep, AxisScale)
               ELSE decay(im.roll)]

\* touchAxes as it would be without the limit
touchAxes_unlimited(im) ==
    LET deltaX == im.touchCurrentX - im.touchStartX
        deltaY == im.touchCurrentY - im.touchStartY
    IN  [pitch |-> Quot(-deltaY * AxisScale, maxDelta),
         roll  |-> Quot(deltaX * AxisScale, maxDelta)]

\* The axes a drag maps to: the displacement over maxDelta, limited to one.
touchAxes(im) ==
    LET deltaX == im.touchCurrentX - im.touchStartX
        deltaY == im.touchCurrentY - im.touchStartY
    IN  [pitch |-> Max(-AxisScale, Min(AxisScale, Quot(-deltaY * AxisScale, maxDelta))),
         roll  |-> Max(-AxisScale, Min(AxisScale, Quot(deltaX * AxisScale, maxDelta)))]

\* update as it would be if the touch were read only while no key is held
InputManager_update_keysFirst(im) ==
    LET anyKey == im.keys.up \/ im.keys.down \/ im.keys.left \/ im.keys.right
        axes == IF im.touchActive /\ ~anyKey THEN touchAxes(im) ELSE keyboardAxes(im)
    IN  [im EXCEPT !.pitch = axes.pitch, !.roll = axes.roll]

\* InputManager.update: the keyboard moves the axes, an active touch overrides
InputManager_update(im) ==
    LET axes == IF im.touchActive THEN touchAxes(im) ELSE keyboardAxes(im)
    IN  [im EXCEPT !.pitch = axes.pitch, !.roll = axes.roll]

getPitch(im) == im.pitch
getRoll(im) == im.roll

(***************************************************************************)
(* main.js: the Game object.                                               *)
(* game.phase is where init() stands: "loading" while it awaits the        *)
(* heightmap image, "failed" once the image load has rejected it,          *)
(* "running" once it has run to its end.  game.animating says that a       *)
(* requestAnimationFrame callback of animate() is pending.  Before init()  *)
(* creates them the glider and the input manager are null; the variables   *)
(* hold their constructed values from the start and nothing reads them     *)
(* until game.phase is "running".                                          *)
(***************************************************************************)
boundaryBuffer == 100 * Centi    \* const buffer = 100, in centimetres

\* The constructor and init() up to the await, had init() started animate()
\* before awaiting the terrain.
Game_construct_animateFirst ==
    [phase |-> "loading", loading |-> TRUE, animating |-> TRUE,
     gameOverVisible |-> FALSE, events |-> 0]

\* The Game constructor and init() up to `await this.loadTerrain()`.
\* events counts the key and touch events delivered so far.
Game_construct ==
    [phase |-> "loading", loading |-> TRUE, animating |-> FALSE,
     gameOverVisible |-> FALSE, events |-> 0]

\* A rational number of metres as whole centimetres.
metresToCm(r) == Quot(r[1] * Centi, r[2])

\* createBoundaryMarkers: the ground height under each of the four corners.
createBoundaryMarkers(t) ==
    LET bounds == getBounds(t)
    IN  [op |-> "createBoundaryMarkers",
         heights |-> <<getHeightAt(t, bounds.minX, bounds.minZ),
                       getHeightAt(t, bounds.maxX, bounds.minZ),
                       getHeightAt(t, bounds.minX, bounds.maxZ),
                       getHeightAt(t, bounds.maxX, bounds.maxZ)>>]

\* distToEdge as it would be if only the maxX and maxZ sides were watched
distToEdge_maxSidesOnly(pos, t) ==
    LET bounds == getBounds(t)
    IN  [x |-> pos.x - (metresToCm(bounds.maxX) - boundaryBuffer),
         z |-> pos.z - (metresToCm(bounds.maxZ) - boundaryBuffer)]

\* How far the position is into the buffer zone on each axis, in centimetres.
distToEdge(pos, t) ==
    LET bounds == getBounds(t)
    IN  [x |-> Max(pos.x - (metresToCm(bounds.maxX) - boundaryBuffer),
                   (metresToCm(bounds.minX) + boundaryBuffer) - pos.x),
         z |-> Max(pos.z - (metresToCm(bounds.maxZ) - boundaryBuffer),
                   (metresToCm(bounds.minZ) + boundaryBuffer) - pos.z)]

\* Math.min(Math.max(distToEdge.x, distToEdge.z) / buffer, 1) in
\* ten-thousandths; the limit is taken before the division, which gives the
\* same value.
boundaryStrength(d) ==
    MulDiv(Min(Max(d.x, d.z), boundaryBuffer), StrengthScale, boundaryBuffer)

\* new THREE.Vector3(-pos.x, 0, -pos.z).normalize(), from whole metres.  A
\* position component is never -0, so -pos.x has its sign bit set exactly
\* when pos.x >= 0.
toCenter(pos) ==
    Direction(VNormalize(Vec(-Quot(pos.x, Centi), 0, -Quot(pos.z, Centi))), pos.x >= 0)

\* No boundary call has been made.
NoBoundaryCall == [op |-> "none"]

\* What checkBoundaries does with the glider it finds: whether it calls
\* applyBoundaryForce, and with which arguments.
boundaryCall(g, t) ==
    LET call(d) == [op        |-> "checkBoundaries",
                    called    |-> d.x > 0 \/ d.z > 0,
                    direction |-> toCenter(g.position),
                    strength  |-> IF d.x > 0 \/ d.z > 0 THEN boundaryStrength(d) ELSE 0,
                    position  |-> g.position,
                    yaw       |-> g.yaw,
                    crashed   |-> g.crashed]
    IN  call(distToEdge(g.position, t))

\* Game.checkBoundaries
checkBoundaries(g, t) ==
    LET steer(c) == IF c.called
                    THEN applyBoundaryForce(g, c.direction, c.strength)
                    ELSE g
    IN  steer(boundaryCall(g, t))

\* An axis of the input manager as the glider takes it, in thousandths.
axisToInput(a) == a * (Milli \div AxisScale)

\* Game.animate after `if (this.loading) return`: one frame of the loop.
animateFrame(g, im, t, gm, deltaTime) ==
    LET steer(im1) == setInput(g, axisToInput(getPitch(im1)), axisToInput(getRoll(im1)))
        fly(im1)   == Glider_update(steer(im1), deltaTime)
        show(im1, g2, g3) ==
            [glider   |-> g3,
             input    |-> im1,
             boundary |-> boundaryCall(g2, t),
             game     |-> [gm EXCEPT !.animating = TRUE,
                                     !.gameOverVisible = IF g3.crashed THEN TRUE ELSE @]]
        bound(im1, g2) == show(im1, g2, checkBoundaries(g2, t))
        frame(im1) == bound(im1, fly(im1))
    IN  frame(InputManager_update(im))

\* Game.animate
animate(g, im, t, gm, deltaTime) ==
    IF gm.loading
    THEN [glider |-> g, input |-> im, boundary |-> NoBoundaryCall,
          game |-> [gm EXCEPT !.animating = TRUE]]
    ELSE animateFrame(g, im, t, gm, deltaTime)

\* init() from the resolution of loadTerrain() to its end: the glider and the
\* input manager are created, loading is cleared and animate() is called.
Game_initRest(gm, t, deltaTime) ==
    animate(GliderNew, InputManagerNew, t,
            [gm EXCEPT !.phase = "running", !.loading = FALSE], deltaTime)

\* restart as it would be without the removal of the overlay's class
restart_keepOverlay(g, gm) ==
    [glider |-> reset(g), game |-> gm]

\* Game.restart
restart(g, gm) ==
    [glider |-> reset(g), game |-> [gm EXCEPT !.gameOverVisible = FALSE]]

\* The key and touch events of the page, and the handler each one reaches.
dispatch(im, e) ==
    CASE e.type = "keydown"     -> handleKeyDown(im, e.key)
      [] e.type = "keyup"       -> handleKeyUp(im, e.key)
      [] e.type = "touchstart"  -> touchstart(im, e.touch)
      [] e.type = "touchmove"   -> touchmove(im, e.touch)
      [] e.type = "touchend"    -> touchend(im)
      [] e.type = "touchcancel" -> touchcancel(im)

(***************************************************************************)
(* The input manager under its events                                      *)
(***************************************************************************)
\* Touch points, in pixels: a drag between the two is a partial deflection
\* across and more than a full one up or down.
TouchPoints == {<<200, 300>>, <<260, 50>>}

InitInput ==
    /\ input = InputManagerNew
    /\ glider = GliderNew
    /\ lastOp = "init"
    /\ wasCrashed = FALSE
    /\ ticks = 0
    /\ terrain = LocalTerrainProviderNew(gameTerrainOptions)
    /\ query = NoQuery
    /\ game = Game_construct
    /\ boundary = NoBoundaryCall
    /\ scenario = NoScenario

NotInput == <<glider, lastOp, wasCrashed, ticks, terrain, query, game, boundary, scenario>>

KeyDown(k) == input' = handleKeyDown(input, k) /\ UNCHANGED NotInput
KeyUp(k) == input' = handleKeyUp(input, k) /\ UNCHANGED NotInput
TouchStart(pt) == input' = touchstart(input, pt) /\ UNCHANGED NotInput
TouchMove(pt) == input' = touchmove(input, pt) /\ UNCHANGED NotInput
TouchEnd == input' = touchend(input) /\ UNCHANGED NotInput
TouchCancel == input' = touchcancel(input) /\ UNCHANGED NotInput
InputUpdate == input' = InputManager_update(input) /\ UNCHANGED NotInput

NextInput ==
    \/ \E k \in KeyNames : KeyDown(k)
    \/ \E k \in KeyNames : KeyUp(k)
    \/ \E pt \in TouchPoints : TouchStart(pt)
    \/ \E pt \in TouchPoints : TouchMove(pt)
    \/ TouchEnd
    \/ TouchCancel
    \/ InputUpdate

SpecInput == InitInput /\ [][NextInput]_vars

(***************************************************************************)
(* The terrain provider queried on its own                                 *)
(***************************************************************************)
\* Red-channel values of the heightmap images tried.
PixelLevels == {0, 100, 255}
\* Their sizes, width by height.
ImageSizes == {<<1, 1>>, <<2, 2>>, <<3, 2>>}
Images ==
    UNION {{[width |-> d[1], height |-> d[2], pixels |-> p] :
               p \in [1..(d[1] * d[2]) -> PixelLevels]} : d \in ImageSizes}
\* Normalised coordinates queried, inside and outside [0, 1].
UVs == {Rat(-1, 4), RInt(0), Rat(1, 4), Rat(1, 2), Rat(3, 4), RInt(1), Rat(5, 4)}
\* World coordinates queried, in metres: centre, edges of both footprints,
\* one metre beyond them, and points between.
WorldXs == {-2851, -2850, -1501, -1500, 0, 950, 1500, 1501, 2850, 2851}
WorldZs == {-1501, -1500, -750, 0, 500, 1500, 1501}

InitTerrain ==
    /\ terrain \in {LocalTerrainProviderNew(gameTerrainOptions),
                     LocalTerrainProviderNew(noTerrainOptions)}
    /\ query = NoQuery
    /\ glider = GliderNew
    /\ lastOp = "init"
    /\ wasCrashed = FALSE
    /\ ticks = 0
    /\ input = InputManagerNew
    /\ game = Game_construct
    /\ boundary = NoBoundaryCall
    /\ scenario = NoScenario

\* await terrainProvider.init() with an image that loads
TerrainInit(img) ==
    /\ ~terrain.ready
    /\ terrain' = LocalTerrainProvider_init(terrain, img)
    /\ query' = NoQuery
    /\ UNCHANGED <<glider, lastOp, wasCrashed, ticks, input, game, boundary, scenario>>

\* a call of sampleHeightmap(u, v) on the loaded provider
SampleHeightmap(u, v) ==
    /\ terrain.ready
    /\ query = NoQuery
    /\ query' = [op |-> "sampleHeightmap", u |-> u, v |-> v,
                 result |-> sampleHeightmap(terrain, u, v)]
    /\ UNCHANGED <<terrain, glider, lastOp, wasCrashed, ticks, input, game, boundary, scenario>>

\* a call of getHeightAt(x, z), loaded or not
GetHeightAt(x, z) ==
    /\ query = NoQuery
    /\ query' = [op |-> "getHeightAt", x |-> x, z |-> z,
                 result |-> getHeightAt(terrain, RInt(x), RInt(z))]
    /\ UNCHANGED <<terrain, glider, lastOp, wasCrashed, ticks, input, game, boundary, scenario>>

NextTerrain ==
    \/ \E img \in Images : TerrainInit(img)
    \/ \E u \in UVs, v \in UVs : SampleHeightmap(u, v)
    \/ \E x \in WorldXs, z \in WorldZs : GetHeightAt(x, z)

SpecTerrain == InitTerrain /\ [][NextTerrain]_vars

(***************************************************************************)
(* The glider driven through its public methods                            *)
(***************************************************************************)
\* Control-axis values a caller sets, in thousandths of full deflection.
InputLevels == {-1000, 0, 1000}
\* Frame times in ms: a 60 Hz frame, the cap, and a hitch beyond the cap.
FrameTimes == {16, 100, 250}
\* The frame time of the frames after the freely chosen ones.
HoldFrameTime == maxDeltaTime
\* Inputs and frame times are chosen freely for this many steps of a flight.
FreeTicks == 1
\* A flight is followed for at most this many physics steps.
MaxTicks == 600

InitGlider ==
    /\ glider = GliderNew
    /\ lastOp = "init"
    /\ wasCrashed = FALSE
    /\ ticks = 0
    /\ terrain = LocalTerrainProviderNew(gameTerrainOptions)
    /\ query = NoQuery
    /\ input = InputManagerNew
    /\ game = Game_construct
    /\ boundary = NoBoundaryCall
    /\ scenario = NoScenario

\* glider.setInput(p, r), while the flight is in its free steps or over
SetInput(p, r) ==
    /\ glider.crashed \/ ticks < FreeTicks
    /\ glider' = setInput(glider, p, r)
    /\ lastOp' = "setInput"
    /\ wasCrashed' = glider.crashed
    /\ UNCHANGED <<ticks, terrain, query, input, game, boundary, scenario>>

\* glider.update(dt) in flight
Update(dt) ==
    /\ ~glider.crashed
    /\ ticks < MaxTicks
    /\ ticks >= FreeTicks => dt = HoldFrameTime
    /\ glider' = Glider_update(glider, dt)
    /\ lastOp' = "update"
    /\ wasCrashed' = FALSE
    /\ ticks' = ticks + 1
    /\ UNCHANGED <<terrain, query, input, game, boundary, scenario>>

\* glider.update(dt) after the crash
UpdateCrashed(dt) ==
    /\ glider.crashed
    /\ glider' = Glider_update(glider, dt)
    /\ lastOp' = "update"
    /\ wasCrashed' = TRUE
    /\ UNCHANGED <<ticks, terrain, query, input, game, boundary, scenario>>

\* glider.reset(), after a crash or early in a flight
Reset ==
    /\ glider.crashed \/ ticks <= FreeTicks
    /\ glider' = reset(glider)
    /\ lastOp' = "reset"
    /\ wasCrashed' = glider.crashed
    /\ ticks' = 0
    /\ UNCHANGED <<terrain, query, input, game, boundary, scenario>>

NextGlider ==
    \/ \E p \in InputLevels, r \in InputLevels : SetInput(p, r)
    \/ \E dt \in FrameTimes : Update(dt)
    \/ \E dt \in FrameTimes : UpdateCrashed(dt)
    \/ Reset

SpecGlider == InitGlider /\ [][NextGlider]_vars

(***************************************************************************)
(* The glider driven through its public methods over the first seconds of  *)
(* a flight                                                                *)
(***************************************************************************)
\* A flight is followed for this many updates.
FirstTicks == 60

\* glider.update(dt) in the first updates of a flight
UpdateAtFirst(dt) ==
    /\ ticks < FirstTicks
    /\ Update(dt)

NextFirstTicks ==
    \/ \E p \in InputLevels, r \in InputLevels : SetInput(p, r)
    \/ \E dt \in FrameTimes : UpdateAtFirst(dt)
    \/ Reset

SpecFirstTicks == InitGlider /\ [][NextFirstTicks]_vars

(***************************************************************************)
(* The game: the page loads, the heightmap arrives or fails, frames run,   *)
(* keys and touches arrive, the restart button is clicked                  *)
(***************************************************************************)
\* The heightmap image the server answers with: one pixel at the full height
\* of the terrain, a plateau 2000 m high.
GameImages == {[width |-> 1, height |-> 1, pixels |-> [i \in 1..1 |-> maxPixelValue]]}
\* Frame times of the frame that init() runs itself: the clock's first delta.
FirstFrameTimes == {0, HoldFrameTime}
\* Frame times of the frames after it.
LaterFrameTimes == {HoldFrameTime}
\* The events of the page.
GameEvents ==
    {[type |-> ty, key |-> k, touch |-> <<0, 0>>] : ty \in {"keydown", "keyup"}, k \in KeyNames}
    \cup {[type |-> ty, key |-> "none", touch |-> pt] : ty \in {"touchstart", "touchmove"}, pt \in TouchPoints}
    \cup {[type |-> ty, key |-> "none", touch |-> <<0, 0>>] : ty \in {"touchend", "touchcancel"}}
\* Events and restarts in flight arrive while a flight has at most this many frames.
FreeFrames == 1
\* At most this many key and touch events are delivered.
MaxEvents == 1
\* A flight is followed for at most this many frames.
MaxFrames == 600

InitGame ==
    /\ game = Game_construct
    /\ boundary = NoBoundaryCall
    /\ scenario = NoScenario
    /\ terrain = LocalTerrainProviderNew(gameTerrainOptions)
    /\ glider = GliderNew
    /\ input = InputManagerNew
    /\ query = NoQuery
    /\ lastOp = "init"
    /\ wasCrashed = FALSE
    /\ ticks = 0

\* img.onload: loadHeightmap resolves, LocalTerrainProvider.init, loadTerrain
\* and Game.init run to their ends, the last of which calls animate().
ImageLoaded(img, dt) ==
    /\ game.phase = "loading"
    /\ LET started(r) == /\ glider' = r.glider
                         /\ input' = r.input
                         /\ game' = r.game
                         /\ boundary' = r.boundary
           loaded(t)  == /\ terrain' = t
                         /\ query' = createBoundaryMarkers(t)
                         /\ started(Game_initRest(game, t, dt))
       IN  loaded(LocalTerrainProvider_init(terrain, img))
    /\ lastOp' = "animate"
    /\ wasCrashed' = FALSE
    /\ ticks' = 1
    /\ UNCHANGED scenario

\* img.onerror: loadHeightmap rejects, and with it init() of the provider,
\* loadTerrain() and Game.init().
ImageFailed ==
    /\ game.phase = "loading"
    /\ game' = [game EXCEPT !.phase = "failed"]
    /\ UNCHANGED <<glider, lastOp, wasCrashed, ticks, terrain, query, input, boundary, scenario>>

\* The requestAnimationFrame callback: animate()
Frame(dt) ==
    /\ game.animating
    /\ glider.crashed \/ ticks < MaxFrames
    /\ LET drawn(r) == /\ glider' = r.glider
                       /\ input' = r.input
                       /\ game' = r.game
                       /\ boundary' = IF game.loading THEN boundary ELSE r.boundary
       IN  drawn(animate(glider, input, terrain, game, dt))
    /\ lastOp' = IF game.loading THEN lastOp ELSE "animate"
    /\ wasCrashed' = glider.crashed
    /\ ticks' = IF game.loading \/ glider.crashed THEN ticks ELSE ticks + 1
    /\ UNCHANGED <<terrain, query, scenario>>

\* A key or touch event reaches the listeners the InputManager registered.
InputEvent(e) ==
    /\ game.phase = "running"
    /\ game.events < MaxEvents
    /\ ticks <= FreeFrames
    /\ input' = dispatch(input, e)
    /\ game' = [game EXCEPT !.events = @ + 1]
    /\ UNCHANGED <<glider, lastOp, wasCrashed, ticks, terrain, query, boundary, scenario>>

\* A click on the restart button, whose listener setupGameOver registered.
RestartClick ==
    /\ game.phase = "running"
    /\ LET clicked(r) == glider' = r.glider /\ game' = r.game
       IN  clicked(restart(glider, game))
    /\ lastOp' = "restart"
    /\ wasCrashed' = glider.crashed
    /\ ticks' = 0
    /\ UNCHANGED <<terrain, query, input, boundary, scenario>>

\* The click early in a flight or after the crash.
Restart ==
    /\ glider.crashed \/ ticks <= FreeFrames
    /\ RestartClick

NextGame ==
    \/ \E img \in GameImages, dt \in FirstFrameTimes : ImageLoaded(img, dt)
    \/ ImageFailed
    \/ \E dt \in LaterFrameTimes : Frame(dt)
    \/ \E e \in GameEvents : InputEvent(e)
    \/ Restart

SpecGame == InitGame /\ [][NextGame]_vars

(***************************************************************************)
(* The game with the down key alone: the key is pressed or released early  *)
(* in a flight, frames run to the crash and beyond, and the restart button *)
(* is clicked at any time                                                  *)
(***************************************************************************)
DiveEvents == {e \in GameEvents : e.key = "down"}

\* The click in the middle of a flight.
RestartInFlight ==
    /\ ~glider.crashed
    /\ ticks > FreeFrames
    /\ RestartClick

NextDive ==
    \/ \E img \in GameImages, dt \in FirstFrameTimes : ImageLoaded(img, dt)
    \/ ImageFailed
    \/ \E dt \in LaterFrameTimes : Frame(dt)
    \/ \E e \in DiveEvents : InputEvent(e)
    \/ Restart
    \/ RestartInFlight

SpecDive == InitGame /\ [][NextDive]_vars

(***************************************************************************)
(* The game from the page load through the first frames of a flight        *)
(***************************************************************************)
\* A flight is followed for this many frames after the page load.
StartupFrames == 4

\* animate() in the first frames of a flight
FrameAtStartup(dt) ==
    /\ ticks < StartupFrames
    /\ Frame(dt)

NextStartup ==
    \/ \E img \in GameImages, dt \in FirstFrameTimes : ImageLoaded(img, dt)
    \/ ImageFailed
    \/ \E dt \in LaterFrameTimes : FrameAtStartup(dt)
    \/ \E e \in GameEvents : InputEvent(e)
    \/ Restart

SpecStartup == InitGame /\ [][NextStartup]_vars

(***************************************************************************)
(* The boundary controller called on its own.  checkBoundaries reads only  *)
(* the position of the glider and applyBoundaryForce only its yaw, so the  *)
(* glider is the constructed one moved and turned.                         *)
(***************************************************************************)
\* Positions across the terrain, in centimetres: the centre, both sides of
\* the inner edge of the buffer zone (2750 m and 1400 m out), inside the
\* zone, on the boundary and beyond it.
BoundaryXs == {-300000, -280000, -275001, -275000, 0, 100, 275000, 275001, 277500, 285000}
BoundaryZs == {-160000, -145000, -140001, -140000, 0, 140000, 140001, 150000}
\* Headings in milliradians; yaw is never wrapped, so some lie beyond a turn.
BoundaryYaws == {-7000, -TwoPi, -Pi, -1571, 0, 1000, Pi, TwoPi, 7000}
\* Directions handed to applyBoundaryForce directly, with both signs of zero.
BoundaryDirections ==
    {Direction(Vec(0, 0, 1000), TRUE), Direction(Vec(0, 0, 1000), FALSE),
     Direction(Vec(0, 0, -1000), TRUE), Direction(Vec(0, 0, -1000), FALSE),
     Direction(Vec(1000, 0, 0), FALSE), Direction(Vec(-1000, 0, 0), TRUE),
     Direction(Vec(707, 0, -707), FALSE), Direction(Vec(-600, 0, 800), TRUE)}
\* Strengths handed to applyBoundaryForce directly, in ten-thousandths.
BoundaryStrengths == {0, 1, 2500, 5000, StrengthScale}

InitBoundary ==
    /\ terrain \in {LocalTerrainProvider_init(LocalTerrainProviderNew(gameTerrainOptions), img) :
                       img \in GameImages}
    /\ glider \in {[GliderNew EXCEPT !.position = Vec(x, startAltitude, z), !.yaw = yw] :
                      x \in BoundaryXs, z \in BoundaryZs, yw \in BoundaryYaws}
    /\ boundary = NoBoundaryCall
    /\ scenario = NoScenario
    /\ game = Game_construct
    /\ input = InputManagerNew
    /\ query = NoQuery
    /\ lastOp = "init"
    /\ wasCrashed = FALSE
    /\ ticks = 0

\* game.checkBoundaries()
CheckBoundaries ==
    /\ boundary = NoBoundaryCall
    /\ glider' = checkBoundaries(glider, terrain)
    /\ boundary' = boundaryCall(glider, terrain)
    /\ lastOp' = "checkBoundaries"
    /\ UNCHANGED <<wasCrashed, ticks, terrain, query, input, game, scenario>>

\* glider.applyBoundaryForce(directionToCenter, strength)
ApplyBoundaryForce(directionToCenter, strength) ==
    /\ boundary = NoBoundaryCall
    /\ glider' = applyBoundaryForce(glider, directionToCenter, strength)
    /\ boundary' = [op        |-> "applyBoundaryForce",
                    called    |-> TRUE,
                    direction |-> directionToCenter,
                    strength  |-> strength,
                    position  |-> glider.position,
                    yaw       |-> glider.yaw,
                    crashed   |-> glider.crashed]
    /\ lastOp' = "applyBoundaryForce"
    /\ UNCHANGED <<wasCrashed, ticks, terrain, query, input, game, scenario>>

NextBoundary ==
    \/ CheckBoundaries
    \/ \E d \in BoundaryDirections, st \in BoundaryStrengths : ApplyBoundaryForce(d, st)

SpecBoundary == InitBoundary /\ [][NextBoundary]_vars

(***************************************************************************)
(* The game running with the glider low over the ground at the edge of the *)
(* map: frames run, the glider comes down, frames go on.  The glider is    *)
(* put where the boundary controller is written for; the flights of        *)
(* SpecGame, from the constructed start, come down long before the edge.   *)
(***************************************************************************)
\* Positions of the glider, in cm: the centre, and inside the buffer zone on
\* each axis.
EdgeXs == {0, 280000}
EdgeZs == {-145000, 0, 145000}
\* Its altitude, in cm, and its headings, in mrad.
EdgeAltitudes == {10}
EdgeYaws == {0, 1000}
\* The glider flies for at most this many frames.
EdgeFrames == 6

InitEdge ==
    /\ terrain \in {LocalTerrainProvider_init(LocalTerrainProviderNew(gameTerrainOptions), img) :
                       img \in GameImages}
    /\ glider \in {[GliderNew EXCEPT !.position = Vec(x, y, z),
                                     !.yaw = yw,
                                     !.rotation = Euler(0, yw, 0)] :
                      x \in EdgeXs, y \in EdgeAltitudes, z \in EdgeZs, yw \in EdgeYaws}
    /\ game = [Game_construct EXCEPT !.phase = "running", !.loading = FALSE,
                                     !.animating = TRUE]
    /\ input = InputManagerNew
    /\ boundary = NoBoundaryCall
    /\ scenario = NoScenario
    /\ query = NoQuery
    /\ lastOp = "init"
    /\ wasCrashed = FALSE
    /\ ticks = 0

\* animate() in flight for the frames followed, and after the crash
FrameAtEdge(dt) ==
    /\ glider.crashed \/ ticks < EdgeFrames
    /\ Frame(dt)

NextEdge == \E dt \in LaterFrameTimes : FrameAtEdge(dt)

SpecEdge == InitEdge /\ [][NextEdge]_vars

(***************************************************************************)
(* The glider flown through a scenario: from the constructed state, the    *)
(* same inputs and the same frame time on every tick                       *)
(***************************************************************************)
\* 1/60 s on the millisecond grid, from below and from above.
SixtiethTimes == {16, 17}
\* A scenario is flown for this many ticks.
ScenarioTicks == 1000
\* Scenario A: no input, 60 frames a second.
\* Scenario C: full pitch input held, at each of the frame times.
Scenarios ==
    {[name |-> "A", pitchInput |-> 0, rollInput |-> 0, dt |-> d,
      elapsed |-> 0, capped |-> 0] : d \in SixtiethTimes}
    \cup {[name |-> "C", pitchInput |-> Milli, rollInput |-> 0, dt |-> d,
           elapsed |-> 0, capped |-> 0] : d \in FrameTimes}

InitScenario ==
    /\ scenario \in Scenarios
    /\ glider = GliderNew
    /\ lastOp = "init"
    /\ wasCrashed = FALSE
    /\ ticks = 0
    /\ terrain = LocalTerrainProviderNew(gameTerrainOptions)
    /\ query = NoQuery
    /\ input = InputManagerNew
    /\ game = Game_construct
    /\ boundary = NoBoundaryCall

\* One tick of the scenario: glider.setInput(...); glider.update(dt).
\* elapsed is the frame time handed to update so far, capped the part of it
\* that update let through, both in milliseconds.
ScenarioTick ==
    /\ ticks < ScenarioTicks
    /\ glider' = Glider_update(setInput(glider, scenario.pitchInput, scenario.rollInput),
                               scenario.dt)
    /\ scenario' = [scenario EXCEPT !.elapsed = @ + scenario.dt,
                                    !.capped = @ + Min(scenario.dt, maxDeltaTime)]
    /\ lastOp' = "update"
    /\ wasCrashed' = glider.crashed
    /\ ticks' = ticks + 1
    /\ UNCHANGED <<terrain, query, input, game, boundary>>

NextScenario == ScenarioTick

SpecScenario == InitScenario /\ [][NextScenario]_vars

(***************************************************************************)
(* Properties of the flight dynamics, checked under SpecGlider             *)
(***************************************************************************)
\* C1: after every Glider.update, |pitch| <= pi/3, |roll| <= pi/2 and
\* |velocity| <= maxSpeed.
C1_ClampInvariants ==
    lastOp = "update" =>
        /\ Abs(glider.pitch) <= pitchLimit
        /\ Abs(glider.roll) <= rollLimit
        /\ getSpeed(glider) <= maxSpeed

\* An update has just pinned the pitch and the roll at their limits.
C1_Witness ==
    /\ lastOp = "update"
    /\ ~wasCrashed
    /\ glider.pitch = pitchLimit
    /\ glider.roll = -rollLimit

\* C3: once crashed, every call but reset() leaves crashed true, the velocity
\* zero and the position where it was; only reset() clears crashed.
C3_CrashedAbsorbing ==
    [][glider.crashed =>
          \/ lastOp' = "reset"
          \/ /\ glider'.crashed
             /\ glider'.velocity = Vec(0, 0, 0)
             /\ glider'.position = glider.position]_vars

\* update() has run on a crashed glider.
C3_Witness ==
    /\ lastOp = "update"
    /\ wasCrashed
    /\ glider.crashed

\* C4: reset() yields position (0,1000,0), velocity (0,0,-20), zero angles
\* and crashed = false, whatever the state before.
C4_ResetState ==
    lastOp = "reset" =>
        /\ glider.position = Vec(0, 1000 * Centi, 0)
        /\ glider.velocity = Vec(0, 0, -20 * Centi)
        /\ glider.pitch = 0
        /\ glider.roll = 0
        /\ glider.yaw = 0
        /\ glider.crashed = FALSE

\* reset() has run on a crashed glider whose heading had turned.
C4_Witness ==
    /\ lastOp = "reset"
    /\ wasCrashed
    /\ glider.rotation = Euler(0, 0, 0)
    /\ glider.debugAoA # 0

\* The velocity a step leaves when no lift is added: gravity, drag, dive and
\* the speed clamp only.
NoLiftVelocity(g, deltaTime) ==
    LET r == updateRotation(g, deltaTime)
    IN  clampSpeed(applyDive(r,
                             applyDrag(r, applyGravity(r.velocity, deltaTime),
                                       getSpeed(r), VNormalize(r.velocity),
                                       angleOfAttack(r), deltaTime),
                             Forward(r.rotation), deltaTime))

\* C6: a step that starts at or below the stall speed adds no lift to the
\* velocity and reports a lift of 0.
C6_StallNoLift ==
    [][(lastOp' = "update" /\ ~glider.crashed /\ getSpeed(glider) <= minSpeed) =>
          /\ glider'.debugLift = 0
          /\ \/ glider'.crashed
             \/ \E dt \in FrameTimes :
                    glider'.velocity = NoLiftVelocity(glider, Min(dt, maxDeltaTime))]_vars

\* A step has just run in the stall.
C6_Witness ==
    /\ lastOp = "update"
    /\ ~wasCrashed
    /\ ~glider.crashed
    /\ glider.debugLift = 0
    /\ getSpeed(glider) < minSpeed

(***************************************************************************)
(* Properties of the terrain provider, checked under SpecTerrain           *)
(***************************************************************************)
Loaded == terrain.heightData # <<>>
\* (x, z) lies beyond the footprint on some axis
OutsideFootprint(x, z) ==
    2 * Abs(x) > terrain.terrainWidth \/ 2 * Abs(z) > terrain.terrainDepth
\* the normalised coordinate of a world coordinate along an axis of length len
Normalised(w, len) == Rat(2 * w + len, 2 * len)

\* C7: getHeightAt(x, z) is exactly 0 beyond the footprint, and on or inside
\* it, edges included, it is the interpolated sample: at the two opposite
\* corners of the footprint the first and the last height of the field.
C7_HeightAtFootprint ==
    query.op = "getHeightAt" =>
        /\ OutsideFootprint(query.x, query.z) => query.result = RInt(0)
        /\ (Loaded /\ ~OutsideFootprint(query.x, query.z)) =>
               query.result = sampleHeightmap(terrain,
                                              Normalised(query.x, terrain.terrainWidth),
                                              Normalised(query.z, terrain.terrainDepth))
        /\ (Loaded /\ 2 * query.x = -terrain.terrainWidth
                   /\ 2 * query.z = -terrain.terrainDepth) =>
               query.result = RInt(terrain.heightData[1])
        /\ (Loaded /\ 2 * query.x = terrain.terrainWidth
                   /\ 2 * query.z = terrain.terrainDepth) =>
               query.result = RInt(terrain.heightData[Len(terrain.heightData)])

\* A query on the very corner of the footprint returned a height above 0.
C7_Witness ==
    /\ query.op = "getHeightAt"
    /\ Loaded
    /\ 2 * query.x = terrain.terrainWidth
    /\ 2 * query.z = terrain.terrainDepth
    /\ RLess(RInt(0), query.result)

Is2x2 == terrain.heightDataWidth = 2 /\ terrain.heightDataHeight = 2

\* C8: on a 2x2 field sampleHeightmap returns the corner sample at (0,0),
\* (1,0), (0,1), (1,1) and the mean of the four samples at (0.5, 0.5).
C8_CornersAndMidpoint ==
    (query.op = "sampleHeightmap" /\ Is2x2) =>
        LET h == terrain.heightData
        IN  /\ (query.u = RInt(0) /\ query.v = RInt(0)) => query.result = RInt(h[1])
            /\ (query.u = RInt(1) /\ query.v = RInt(0)) => query.result = RInt(h[2])
            /\ (query.u = RInt(0) /\ query.v = RInt(1)) => query.result = RInt(h[3])
            /\ (query.u = RInt(1) /\ query.v = RInt(1)) => query.result = RInt(h[4])
            /\ (query.u = Rat(1, 2) /\ query.v = Rat(1, 2)) =>
                   query.result = Rat(h[1] + h[2] + h[3] + h[4], 4)

\* The midpoint of a 2x2 field with unequal corners has been sampled.
C8_Witness ==
    /\ query.op = "sampleHeightmap"
    /\ Is2x2
    /\ query.u = Rat(1, 2)
    /\ query.v = Rat(1, 2)
    /\ terrain.heightData[1] # terrain.heightData[2]
    /\ terrain.heightData[3] # terrain.heightData[4]
    /\ terrain.heightData[1] # terrain.heightData[3]

IsFlat == \A i \in DOMAIN terrain.heightData : terrain.heightData[i] = terrain.heightData[1]
InUnitInterval(r) == ~RLess(r, RInt(0)) /\ ~RLess(RInt(1), r)

\* C9: on a field whose samples all equal c, sampleHeightmap(u, v) is exactly
\* c for every (u, v) in the unit square.
C9_FlatField ==
    (query.op = "sampleHeightmap" /\ IsFlat
        /\ InUnitInterval(query.u) /\ InUnitInterval(query.v)) =>
        query.result = RInt(terrain.heightData[1])

\* A flat field above 0 has been sampled between its samples on both axes.
C9_Witness ==
    /\ query.op = "sampleHeightmap"
    /\ IsFlat
    /\ terrain.heightData[1] > 0
    /\ terrain.heightDataWidth = 3
    /\ query.u = Rat(1, 4)
    /\ query.v = Rat(3, 4)

\* The cell of the last sampleHeightmap call.
queryCell == sampleCell(terrain, query.u, query.v)

\* A cell whose columns and rows are those of the field, with each "+1"
\* neighbour the next column or row, or the last one again at the far edge.
neighboursClamped(t, c) ==
    /\ c.x0 \in 0..(t.heightDataWidth - 1)
    /\ c.y0 \in 0..(t.heightDataHeight - 1)
    /\ c.x1 = (IF c.x0 = t.heightDataWidth - 1 THEN c.x0 ELSE c.x0 + 1)
    /\ c.y1 = (IF c.y0 = t.heightDataHeight - 1 THEN c.y0 ELSE c.y0 + 1)

\* C15: for every u and v, in [0, 1] or not, and every loaded field,
\* sampleHeightmap reads only indices from 0 to W * H - 1, and the x1 and y1
\* neighbours are limited to the last column and row, never wrapped.
C15_ReadsInsideField ==
    query.op = "sampleHeightmap" =>
        /\ readIndices(terrain, queryCell)
               \subseteq 0..(terrain.heightDataWidth * terrain.heightDataHeight - 1)
        /\ \A i \in readIndices(terrain, queryCell) : i + 1 \in DOMAIN terrain.heightData
        /\ neighboursClamped(terrain, queryCell)

\* A sample beyond the far corner of a field three wide and two high: both
\* neighbours would leave the field were they not limited.
C15_Witness ==
    /\ query.op = "sampleHeightmap"
    /\ terrain.heightDataWidth = 3
    /\ terrain.heightDataHeight = 2
    /\ RLess(RInt(1), query.u)
    /\ RLess(RInt(1), query.v)
    /\ queryCell.x0 = 2
    /\ queryCell.x1 = 2
    /\ queryCell.y1 = 1
    /\ readIndices(terrain, queryCell) = {5}

(***************************************************************************)
(* Properties of the input manager, checked under SpecInput                *)
(***************************************************************************)
\* C10: whatever keys and touches arrive between updates, getPitch() and
\* getRoll() stay within [-1, 1].
C10_AxesInRange ==
    /\ -AxisScale <= getPitch(input) /\ getPitch(input) <= AxisScale
    /\ -AxisScale <= getRoll(input) /\ getRoll(input) <= AxisScale

\* An update has mapped a drag of more than maxDelta pixels upward to full
\* pitch while a key pulled the other way.
C10_Witness ==
    /\ input.touchActive
    /\ input.touchStartY - input.touchCurrentY > maxDelta
    /\ input.keys.down
    /\ getPitch(input) = AxisScale
    /\ getRoll(input) < 0

\* clamp(d / 100, -1, 1) for a displacement of d pixels, on the axis grid.
dragAxis(d) == Clamp(-AxisScale, Quot(d * AxisScale, maxDelta), AxisScale)

\* C18: an update during an active drag leaves
\* pitch = clamp(-(currentY - startY) / 100, -1, 1) and
\* roll = clamp((currentX - startX) / 100, -1, 1) whatever keys are held; a
\* touchmove while no touch is active changes nothing, so neither the axes
\* nor what the next update makes of them.
C18_TouchOverridesKeys ==
    /\ [][(input.touchActive /\ input' = InputManager_update(input)) =>
              /\ getPitch(input') = dragAxis(-(input.touchCurrentY - input.touchStartY))
              /\ getRoll(input') = dragAxis(input.touchCurrentX - input.touchStartX)]_vars
    /\ [](~input.touchActive =>
              \A pt \in TouchPoints :
                  /\ getPitch(touchmove(input, pt)) = getPitch(input)
                  /\ getRoll(touchmove(input, pt)) = getRoll(input)
                  /\ InputManager_update(touchmove(input, pt)) = InputManager_update(input))

\* An update has mapped a drag down and to the left to full negative pitch
\* and part negative roll while the up and right keys were held.
C18_Witness ==
    /\ input.touchActive
    /\ input.keys.up
    /\ input.keys.right
    /\ input.touchCurrentY - input.touchStartY > maxDelta
    /\ input.touchCurrentX < input.touchStartX
    /\ getPitch(input) = -AxisScale
    /\ getRoll(input) = dragAxis(input.touchCurrentX - input.touchStartX)
    /\ getRoll(input) < 0
    /\ getRoll(input) > -AxisScale

(***************************************************************************)
(* Properties of the game, checked under SpecStartup                       *)
(***************************************************************************)
\* The ground height the terrain provider returns under the glider, in
\* centimetres (a rational).
groundHeightUnder(g, t) ==
    getHeightAt(t, Rat(g.position.x, Centi), Rat(g.position.z, Centi))

\* C2: a frame that started in flight ends crashed exactly when the position
\* it reached is below the terrain height the provider passed to the Glider
\* returns at (position.x, position.z); the game always passes a provider.
C2_CrashBelowTerrain ==
    (lastOp = "animate" /\ ~wasCrashed) =>
        (glider.crashed <=>
            RLess(RInt(glider.position.y), groundHeightUnder(glider, terrain)))

\* C5: nothing of the simulation (a frame with its Glider.update and
\* checkBoundaries, a restart, a terrain height query) has run unless
\* LocalTerrainProvider.init has completed, and once the image load has
\* failed no frame is pending and none has run.
C5_LoadGatesSimulation ==
    /\ (lastOp # "init" \/ ticks > 0 \/ query # NoQuery) =>
           (terrain.ready /\ game.phase = "running")
    /\ game.phase = "failed" =>
           (~game.animating /\ lastOp = "init" /\ ticks = 0 /\ query = NoQuery)

\* The image load has failed: the provider is not ready and init() is over.
C5_Witness ==
    /\ game.phase = "failed"
    /\ ~terrain.ready
    /\ game.loading

(***************************************************************************)
(* Properties of the boundary controller, checked under SpecBoundary       *)
(***************************************************************************)
\* How far a coordinate is beyond (bound - 100 m), the bound being half the
\* extent of the terrain on that axis; in centimetres.
penetration(coordinate, extent) ==
    Abs(coordinate) - ((extent * Centi) \div 2 - 100 * Centi)

\* The larger of the two penetrations of a checkBoundaries call.
deepest(b, t) ==
    Max(penetration(b.position.x, t.terrainWidth), penetration(b.position.z, t.terrainDepth))

\* C11: checkBoundaries calls applyBoundaryForce exactly when the glider is
\* more than (bound - 100 m) out on an axis; the strength it passes is
\* min(max(penetrationX, penetrationZ) / 100 m, 1) and lies in (0, 1]; and
\* when the glider is inside on both axes the yaw is left as it was.
C11_BoundaryCall ==
    boundary.op = "checkBoundaries" =>
        /\ boundary.called <=> deepest(boundary, terrain) > 0
        /\ boundary.called =>
               /\ boundary.strength * (100 * Centi)
                      = Min(deepest(boundary, terrain), 100 * Centi) * StrengthScale
               /\ 0 < boundary.strength
               /\ boundary.strength <= StrengthScale
        /\ ~boundary.called => glider.yaw = boundary.yaw

\* checkBoundaries found the glider part of the way into the buffer zone and
\* turned it.
C11_Witness ==
    /\ boundary.op = "checkBoundaries"
    /\ boundary.called
    /\ boundary.strength > 0
    /\ boundary.strength < StrengthScale
    /\ glider.yaw # boundary.yaw

\* The glider as the last boundary call found it.
gliderBefore == [glider EXCEPT !.yaw = boundary.yaw]

\* The magnitude of the exact yaw correction of a call with strength st on
\* the glider and direction of the last call.
correctionMagnitude(st) ==
    LET magnitude(c) == <<Abs(c[1]), c[2]>>
    IN  magnitude(yawCorrection(gliderBefore, boundary.direction, st))

\* C12 as stated: for the yaw and direction of a call, every larger strength
\* gives a strictly larger magnitude of yaw change.
C12_StrictlyIncreasing ==
    boundary.op = "applyBoundaryForce" =>
        \A st \in BoundaryStrengths :
            st > boundary.strength =>
                RLess(correctionMagnitude(boundary.strength), correctionMagnitude(st))

\* C12, amended: a larger strength gives a strictly larger magnitude of yaw
\* change when the normalised difference to the target heading is not zero,
\* and no change at any strength when it is zero.
C12_IncreasingUnlessOnTarget ==
    boundary.op = "applyBoundaryForce" =>
        \A st \in BoundaryStrengths :
            st > boundary.strength =>
                IF normalizedDiff(gliderBefore, boundary.direction) # 0
                THEN RLess(correctionMagnitude(boundary.strength), correctionMagnitude(st))
                ELSE /\ correctionMagnitude(st) = RInt(0)
                     /\ glider.yaw = boundary.yaw

\* applyBoundaryForce turned a glider that was off the target heading, with a
\* strength between none and full.
C12_Witness ==
    /\ boundary.op = "applyBoundaryForce"
    /\ normalizedDiff(gliderBefore, boundary.direction) # 0
    /\ boundary.strength > 0
    /\ boundary.strength < StrengthScale
    /\ glider.yaw # boundary.yaw

\* The raw angle difference of the last call: targetYaw - this.yaw.
rawDiff == targetYaw(boundary.direction) - boundary.yaw
\* The angle difference the last call used for its correction.
usedDiff == normalizedDiff(gliderBefore, boundary.direction)
\* The yaw the last call leaves for a difference d: the yaw before plus
\* d * strength * 0.02, cut to the grid of yaw.
yawAfter(d) ==
    LET cut(c) == boundary.yaw + Quot(c[1], c[2])
    IN  cut(RMul(RMul(RInt(d), Rat(boundary.strength, StrengthScale)), Rat(2, 100)))

\* C16 as stated: the difference used is the raw one brought by whole turns
\* into the half-open interval (-pi, pi], and yaw changes by exactly
\* difference * strength * 0.02.
C16_HalfOpenInterval ==
    boundary.op = "applyBoundaryForce" =>
        /\ (usedDiff - rawDiff) % TwoPi = 0
        /\ -Pi < usedDiff
        /\ usedDiff <= Pi
        /\ glider.yaw = yawAfter(usedDiff)

\* C16, amended: the difference used is the raw one brought by whole turns
\* into the closed interval [-pi, pi], an end of the interval being reached
\* from its own side only (-pi from raw differences at or below -pi, so a raw
\* difference of exactly -pi stays -pi; +pi from those at or above +pi), and
\* yaw changes by exactly difference * strength * 0.02.
C16_ClosedInterval ==
    boundary.op = "applyBoundaryForce" =>
        /\ (usedDiff - rawDiff) % TwoPi = 0
        /\ -Pi <= usedDiff
        /\ usedDiff <= Pi
        /\ (usedDiff = -Pi => rawDiff <= -Pi)
        /\ (usedDiff = Pi => rawDiff >= Pi)
        /\ (rawDiff = -Pi => usedDiff = -Pi)
        /\ glider.yaw = yawAfter(usedDiff)

\* applyBoundaryForce at full strength on a glider heading exactly away from
\* the target, the raw difference being -pi: the glider turned the negative
\* way.
C16_Witness ==
    /\ boundary.op = "applyBoundaryForce"
    /\ rawDiff = -Pi
    /\ usedDiff = -Pi
    /\ boundary.strength = StrengthScale
    /\ glider.yaw < boundary.yaw
    /\ glider.yaw = yawAfter(-Pi)

(***************************************************************************)
(* Properties of the frame-time cap, checked under SpecFirstTicks          *)
(***************************************************************************)
\* Frame times above the cap, in ms: just above, a hitch, a long stall.
LongFrameTimes == {maxDeltaTime + 1, 250, 1000}

\* C17: for any flying state and inputs, update(dt) with dt > 0.1 s gives
\* exactly the state update(0.1) gives.
C17_FrameTimeCap ==
    ~glider.crashed =>
        \A dt \in LongFrameTimes :
            Glider_update(glider, dt) = Glider_update(glider, maxDeltaTime)

\* The first update of a flight, with both inputs set, has left what an
\* update of 0.1 s leaves: a pitch step of 0.15 rad and a glider still flying.
C17_Witness ==
    /\ lastOp = "update"
    /\ ticks = 1
    /\ ~glider.crashed
    /\ glider.pitchInput = Milli
    /\ glider.rollInput = -Milli
    /\ glider = Glider_update(setInput(GliderNew, Milli, -Milli), maxDeltaTime)
    /\ glider.pitch = MulDiv(pitchRate, maxDeltaTime, Milli)

(***************************************************************************)
(* Properties of the game over its flights, checked under SpecDive         *)
(***************************************************************************)
\* C20: at the end of every frame and after every restart click, in any
\* order of the two, the game-over overlay is visible exactly when the glider
\* is crashed.
C20_OverlayIffCrashed ==
    (game.phase = "running" /\ lastOp \in {"animate", "restart"}) =>
        (game.gameOverVisible <=> glider.crashed)

\* A click on restart has taken the overlay away from a crashed glider and
\* put the glider back at the start.
C20_Witness ==
    /\ lastOp = "restart"
    /\ wasCrashed
    /\ ~glider.crashed
    /\ ~game.gameOverVisible
    /\ glider.position = Vec(0, startAltitude, 0)

C13_CrashWithinScenarioA ==
    (scenario.name = "A" /\ ticks = ScenarioTicks) => glider.crashed

\* The pitch step of one update at full pitch input and frame time dt (ms).
pitchStep(dt) == Quot(Milli * pitchRate * dt, Milli * Milli)
\* (pi/3) / pitchRate, in ms.
ceilingTime == MulDiv(pitchLimit, Milli, pitchRate)

\* C14 as stated: in scenario C pitch never decreases, grows by
\* pitchRate * dt per update up to pi/3, and is pi/3 once the accumulated
\* frame time has reached (pi/3) / pitchRate.
C14_PitchRisesWithFrameTime ==
    [][scenario.name = "C" =>
          /\ glider'.pitch >= glider.pitch
          /\ glider'.pitch = Min(glider.pitch + pitchStep(scenario.dt), pitchLimit)
          /\ (scenario'.elapsed >= ceilingTime => glider'.pitch = pitchLimit)
          /\ (glider.pitch = pitchLimit => glider'.pitch = pitchLimit)]_vars

\* C14, amended: the same with every frame time capped at 0.1 s, in the step
\* and in the accumulated time.
C14_PitchRisesWithCappedFrameTime ==
    [][scenario.name = "C" =>
          /\ glider'.pitch >= glider.pitch
          /\ glider'.pitch = Min(glider.pitch + pitchStep(Min(scenario.dt, maxDeltaTime)),
                                 pitchLimit)
          /\ (scenario'.capped >= ceilingTime => glider'.pitch = pitchLimit)
          /\ (glider.pitch = pitchLimit => glider'.pitch = pitchLimit)]_vars

\* Scenario C with a frame time above the cap has reached the pitch ceiling
\* and been updated at the ceiling.
C14_Witness ==
    /\ scenario.name = "C"
    /\ scenario.dt > maxDeltaTime
    /\ lastOp = "update"
    /\ glider.pitch = pitchLimit
    /\ scenario.capped >= ceilingTime + 2 * maxDeltaTime
    /\ scenario.elapsed > scenario.capped

=============================================================================
